---- MODULE Spec2Model ----
(***************************************************************************)
(* A model of the ApiClient of tsfetch (src/unnamed/part_001, the           *)
(* TypeScript source of the client) and of its Next.js middleware.          *)
(*                                                                         *)
(* JavaScript strings are sequences of symbols: a symbol stands for one or *)
(* more characters that the code never looks inside ("https://api.test",   *)
(* "users"), and every character the code does look at ("/", "?", "&",     *)
(* "=", "[", "]", " ") is a symbol of its own.  The empty string is <<>>.   *)
(* JavaScript values of type `any` are tagged records.  An object is a     *)
(* function whose DOMAIN is the set of its own keys whose value is not     *)
(* undefined.                                                              *)
(***************************************************************************)
EXTENDS Integers, Sequences, FiniteSets, TLC

VARIABLES
    baseUrl,      \* ApiClient.baseUrl
    token,        \* ApiClient.token
    middlewares,  \* ApiClient.middlewares: the registered middlewares, in order
    disp,         \* the dispatches (calls of customFetch), by dispatch id
    useReturned   \* what the last call of use() returned

vars == <<baseUrl, token, middlewares, disp, useReturned>>

----------------------------------------------------------------------------
(* JavaScript values *)

Undef == [t |-> "undefined"]
Null == [t |-> "null"]
FormData == [t |-> "formdata"]
Str(s) == [t |-> "string", v |-> s]
Num(n) == [t |-> "number", v |-> n]
Bool(b) == [t |-> "boolean", v |-> b]
\* a plain object, by its entries <<key, value>> in insertion order
Obj(entries) == [t |-> "object", v |-> entries]
\* an array, by its elements
Arr(items) == [t |-> "array", v |-> items]

\* ToBoolean: what `if (v)` and `v || w` test
Truthy(v) ==
    CASE v.t = "undefined" -> FALSE
      [] v.t = "null" -> FALSE
      [] v.t = "string" -> v.v # <<>>
      [] v.t = "number" -> v.v # 0
      [] v.t = "boolean" -> v.v
      [] OTHER -> TRUE

\* v || w
OrElse(v, w) == IF Truthy(v) THEN v ELSE w

\* the decimal digits of a natural number, one symbol per digit
RECURSIVE Digits(_)
Digits(n) ==
    LET d == <<"0", "1", "2", "3", "4", "5", "6", "7", "8", "9">>
    IN  IF n < 10 THEN <<d[n + 1]>> ELSE Digits(n \div 10) \o <<d[(n % 10) + 1]>>

\* items[1] sep items[2] sep ... (Array.prototype.join)
RECURSIVE Join(_, _)
Join(items, sep) ==
    IF items = <<>> THEN <<>>
    ELSE IF Len(items) = 1 THEN items[1]
    ELSE items[1] \o sep \o Join(Tail(items), sep)

\* JSON.stringify of a value
RECURSIVE JsonStringify(_)
JsonStringify(v) ==
    CASE v.t = "null" -> <<"null">>
      [] v.t = "string" -> <<"\"">> \o v.v \o <<"\"">>
      [] v.t = "number" -> Digits(v.v)
      [] v.t = "boolean" -> IF v.v THEN <<"true">> ELSE <<"false">>
      [] v.t = "array" ->
            <<"[">> \o Join([i \in 1..Len(v.v) |-> JsonStringify(v.v[i])], <<",">>)
                    \o <<"]">>
      [] v.t = "object" ->
            <<"{">> \o Join([i \in 1..Len(v.v) |->
                                <<"\"">> \o v.v[i][1] \o <<"\"", ":">>
                                         \o JsonStringify(v.v[i][2])], <<",">>)
                    \o <<"}">>
      [] OTHER -> <<"{", "}">>   \* a FormData has no enumerable own properties

\* String(v); an array is its elements joined by ",", null and undefined
\* elements as the empty string
RECURSIVE ToStr(_)
ToStr(v) ==
    CASE v.t = "undefined" -> <<"undefined">>
      [] v.t = "null" -> <<"null">>
      [] v.t = "string" -> v.v
      [] v.t = "number" -> Digits(v.v)
      [] v.t = "boolean" -> IF v.v THEN <<"true">> ELSE <<"false">>
      [] v.t = "array" ->
            Join([i \in 1..Len(v.v) |->
                    IF v.v[i].t \in {"undefined", "null"} THEN <<>>
                    ELSE ToStr(v.v[i])], <<",">>)
      [] OTHER -> <<"[object Object]">>

----------------------------------------------------------------------------
(* Objects: spread, rest and destructuring with defaults *)

EmptyObj == [k \in {} |-> Undef]

\* { ...a, ...b }
Spread(a, b) ==
    [k \in (DOMAIN a) \cup (DOMAIN b) |-> IF k \in DOMAIN b THEN b[k] ELSE a[k]]

\* const { k1, k2, ...rest } = o
Rest(o, keys) == [k \in (DOMAIN o) \ keys |-> o[k]]

\* the object with o's entries for the given keys
Pick(o, keys) == [k \in (DOMAIN o) \cap keys |-> o[k]]

\* const { k = dflt } = o
Get(o, k, dflt) == IF k \in DOMAIN o THEN o[k] ELSE dflt

\* the fields customFetch takes out of an options object
OwnKeys == {"params", "query", "body", "headers", "expectResponse", "url"}

----------------------------------------------------------------------------
(* The URL builder *)

\* s1 \o s2 \o ... for a sequence of sequences
RECURSIVE Flatten(_)
Flatten(ss) == IF ss = <<>> THEN <<>> ELSE ss[1] \o Flatten(Tail(ss))

StartsWith(s, sym) == s # <<>> /\ s[1] = sym
EndsWith(s, sym) == s # <<>> /\ s[Len(s)] = sym

\* the application/x-www-form-urlencoded byte serializer, symbol by symbol:
\* a word of letters, digits, "*", "-", "." and "_" is left as it is
FormEncodeSym(c) ==
    CASE c = " " -> <<"+">>
      [] c = "[" -> <<"%5B">>
      [] c = "]" -> <<"%5D">>
      [] c = "{" -> <<"%7B">>
      [] c = "}" -> <<"%7D">>
      [] c = "\"" -> <<"%22">>
      [] c = ":" -> <<"%3A">>
      [] c = "," -> <<"%2C">>
      [] c = "/" -> <<"%2F">>
      [] c = "&" -> <<"%26">>
      [] c = "=" -> <<"%3D">>
      [] c = "?" -> <<"%3F">>
      [] c = "[object Object]" -> <<"%5B", "object", "+", "Object", "%5D">>
      [] OTHER -> <<c>>

FormEncode(s) == Flatten([i \in 1..Len(s) |-> FormEncodeSym(s[i])])

\* URLSearchParams.toString() of the appended pairs <<name, value>>
SearchParamsToString(pairs) ==
    Join([i \in 1..Len(pairs) |->
            FormEncode(pairs[i][1]) \o <<"=">> \o FormEncode(pairs[i][2])], <<"&">>)

serializeQueryParam(key, value) ==
    IF Truthy(value) /\ value.t \in {"object", "array", "formdata"}
    THEN <<key, JsonStringify(value)>>
    ELSE <<key, ToStr(value)>>

\* an expansion that appends the elements of an array last to first
QueryEntryPairsReversed(key, value) ==
    IF value.t \in {"undefined", "null"} THEN <<>>
    ELSE IF value.t = "formdata" THEN <<>>
    ELSE IF value.t = "object"
    THEN LET kept == SelectSeq(value.v, LAMBDA e : e[2].t \notin {"undefined", "null"})
         IN  [i \in 1..Len(kept) |->
                <<key \o <<"[">> \o kept[i][1] \o <<"]">>, ToStr(kept[i][2])>>]
    ELSE IF value.t = "array"
    THEN [i \in 1..Len(value.v) |->
            LET p == serializeQueryParam(key, value.v[Len(value.v) + 1 - i])
            IN  <<p[1] \o <<"[", "]">>, p[2]>>]
    ELSE <<serializeQueryParam(key, value)>>

\* the pairs one entry of the query object appends to searchParams
QueryEntryPairs(key, value) ==
    IF value.t \in {"undefined", "null"} THEN <<>>
    ELSE IF value.t = "formdata" THEN <<>>   \* an object with no own entries
    ELSE IF value.t = "object"
    THEN LET kept == SelectSeq(value.v, LAMBDA e : e[2].t \notin {"undefined", "null"})
         IN  [i \in 1..Len(kept) |->
                <<key \o <<"[">> \o kept[i][1] \o <<"]">>, ToStr(kept[i][2])>>]
    ELSE IF value.t = "array"
    THEN [i \in 1..Len(value.v) |->
            LET p == serializeQueryParam(key, value.v[i])
            IN  <<p[1] \o <<"[", "]">>, p[2]>>]
    ELSE <<serializeQueryParam(key, value)>>

\* a builder that appends "?" and the query string whatever the query string is
buildUrlAlwaysQuery(base, path, params, query) ==
    LET cleanPath == IF StartsWith(path, "/") THEN Tail(path) ELSE path
        withParams == base \o cleanPath
                      \o Flatten([i \in 1..Len(params) |-> <<"/">> \o params[i]])
        pairs == Flatten([i \in 1..Len(query) |->
                            QueryEntryPairs(query[i][1], query[i][2])])
    IN  withParams \o <<"?">> \o SearchParamsToString(pairs)

\* buildUrl(path, params, query) of a client whose baseUrl is base; query is
\* the sequence of the entries <<key, value>> of the query object
buildUrl(base, path, params, query) ==
    LET cleanPath == IF StartsWith(path, "/") THEN Tail(path) ELSE path
        withParams == base \o cleanPath
                      \o Flatten([i \in 1..Len(params) |-> <<"/">> \o params[i]])
        pairs == Flatten([i \in 1..Len(query) |->
                            QueryEntryPairs(query[i][1], query[i][2])])
        queryString == SearchParamsToString(pairs)
    IN  IF queryString # <<>> THEN withParams \o <<"?">> \o queryString
        ELSE withParams

\* baseUrl.endsWith("/") ? baseUrl : `${baseUrl}/`
NormalizeBase(b) == IF EndsWith(b, "/") THEN b ELSE b \o <<"/">>

----------------------------------------------------------------------------
(* Errors and promise results *)

Error(name, message) == [t |-> "error", name |-> name, message |-> message]

\* what an awaited call produced: a value, or an exception
Value(v) == [kind |-> "value", v |-> v]
Throw(e) == [kind |-> "throw", v |-> e]     \* thrown by the call itself
Reject(e) == [kind |-> "reject", v |-> e]   \* the returned promise rejects
NoResult == [kind |-> "none"]

Failed(r) == r.kind \in {"throw", "reject"}

----------------------------------------------------------------------------
(* The verb methods *)

Method(verb) ==
    CASE verb = "get" -> <<"GET">>
      [] verb = "post" -> <<"POST">>
      [] verb = "put" -> <<"PUT">>
      [] verb = "patch" -> <<"PATCH">>
      [] verb = "delete" -> <<"DELETE">>

\* The options a verb method hands to customFetch.  call is the argument
\* object of the verb method (path, params, body, query, options,
\* expectResponse: those the caller passed), and call.verb names the method.
VerbOptions(call) ==
    LET explicit ==
            Spread(
              Spread([method |-> Method(call.verb),
                      query |-> Get(call, "query", <<>>),
                      expectResponse |-> Get(call, "expectResponse", TRUE)],
                     Pick(call, {"params"})),
              IF call.verb = "get" THEN EmptyObj ELSE Pick(call, {"body"}))
    IN  Spread(explicit, Get(call, "options", EmptyObj))

----------------------------------------------------------------------------
(* Middlewares.  A middleware is a function of the caller's; the model has  *)
(* the two of the README (one returns its argument, one adds a header),     *)
(* one that sets the url field, one that sets expectResponse to false, and  *)
(* the ways a middleware can fail.                                          *)

CustomHeader == "X-Custom-Header"
CustomValue == <<"custom-value">>
MwUrl == <<"https://mw.test", "/", "override">>
MwError(m) == Error("Error", <<m>>)

\* cyrb53(str), kept symbolic: the number is a function of the code units of
\* str alone, and the model keeps the string it was computed from
cyrb53(str) == [t |-> "cyrb53", of |-> str]

\* the string nextJsPerUserCachingMiddleware hashes for the options o
CacheKeyInput(o) ==
    LET url == Get(o, "url", <<>>)
        tok == Get(Get(o, "headers", EmptyObj), "Authorization", <<>>)
    IN  IF tok # <<>> THEN url \o <<"-">> \o tok ELSE url

\* nextJsPerUserCachingMiddleware(o)
nextJsPerUserCachingMiddleware(o) ==
    LET next == Get(o, "next", EmptyObj)
        cacheKey == cyrb53(CacheKeyInput(o))
    IN  Spread(o, [next |->
                    [revalidate |-> Get(next, "revalidate", 10),
                     tags |-> Get(next, "tags", <<>>) \o <<cacheKey>>,
                     cache |-> Get(next, "cache", <<"no-store">>)]])

\* the result of calling middleware m with the options o
MwRun(m, o) ==
    CASE m = "log" -> Value(o)
      [] m = "header" ->
            Value(Spread(o, [headers |->
                    Spread(Get(o, "headers", EmptyObj),
                           (CustomHeader :> CustomValue))]))
      [] m = "url" -> Value(Spread(o, [url |-> MwUrl]))
      [] m = "emptyUrl" -> Value(Spread(o, [url |-> <<>>]))
      [] m = "noResponse" -> Value(Spread(o, [expectResponse |-> FALSE]))
      \* returns a new object with one header, and nothing of its argument
      [] m = "partial" -> Value([headers |-> (CustomHeader :> CustomValue)])
      \* returns its argument with the headers replaced by one header
      [] m = "ownHeaders" ->
            Value(Spread(o, [headers |-> ("X-Trace" :> <<"t1">>)]))
      [] m = "nextjs" -> Value(nextJsPerUserCachingMiddleware(o))
      [] m = "throw" -> Throw(MwError(m))
      [] m = "reject" -> Reject(MwError(m))

----------------------------------------------------------------------------
(* customFetch, up to the network call *)

ContentType == "Content-Type"
Authorization == "Authorization"
ApplicationJson == <<"application/json">>

\* an Authorization entry with a scheme before the token
AuthHeaderBearer(tok) ==
    IF Truthy(tok) THEN (Authorization :> (<<"Bearer ">> \o ToStr(tok)))
    ELSE EmptyObj

\* the Authorization entry of the default headers
AuthHeader(tok) ==
    IF Truthy(tok) THEN (Authorization :> ToStr(tok)) ELSE EmptyObj

DefaultHeaders(tok) == Spread((ContentType :> ApplicationJson), AuthHeader(tok))

\* a merge in which the default headers win: { ...headers, ...defaultHeaders }
MergeHeadersDefaultsWin(defaults, headers) == Spread(headers, defaults)

\* { ...defaultHeaders, ...headers }
MergeHeaders(defaults, headers) == Spread(defaults, headers)

\* if (body) requestOptions.body = body
AttachBody(requestOptions, body) ==
    IF Truthy(body) THEN Spread(requestOptions, [body |-> body])
    ELSE requestOptions

\* the requestOptions handed to applyMiddlewares, from the options customFetch
\* was called with and the client's token
InitialRequestOptions(options, tok) ==
    LET fetchOptions == Rest(options, OwnKeys)
        requestOptions ==
            Spread(fetchOptions,
                   [headers |-> MergeHeaders(DefaultHeaders(tok),
                                             Get(options, "headers", EmptyObj)),
                    params |-> Get(options, "params", <<>>),
                    query |-> Get(options, "query", <<>>),
                    expectResponse |-> Get(options, "expectResponse", TRUE)])
    IN  AttachBody(requestOptions, Get(options, "body", Undef))

\* a resolution that prefers the caller's url to the middlewares'
ResolveUrlCallerFirst(processedCustomUrl, customUrl, built) ==
    IF customUrl # <<>> THEN customUrl
    ELSE IF processedCustomUrl # <<>> THEN processedCustomUrl
    ELSE built

\* processedCustomUrl || customUrl || this.buildUrl(path, params, query)
ResolveUrl(processedCustomUrl, customUrl, built) ==
    IF processedCustomUrl # <<>> THEN processedCustomUrl
    ELSE IF customUrl # <<>> THEN customUrl
    ELSE built

\* the body of the network call, for a processedBody that is not undefined
EncodeBody(processedBody) ==
    IF processedBody.t \in {"string", "formdata"} THEN processedBody
    ELSE Str(JsonStringify(processedBody))

\* finalRequestOptions, from the options the middlewares returned
FinalRequestOptions(processed) ==
    LET final == Spread(Rest(processed, OwnKeys),
                        [headers |-> Get(processed, "headers", EmptyObj)])
    IN  IF "body" \in DOMAIN processed
        THEN Spread(final, [body |-> EncodeBody(processed.body)])
        ELSE final

\* the network call customFetch makes: fetch(url, finalRequestOptions).  An
\* absent url (undefined) is falsy like the empty string.
NetworkCall(path, options, processed, base) ==
    [url |-> ResolveUrl(Get(processed, "url", <<>>), Get(options, "url", <<>>),
                        buildUrl(base, path, Get(processed, "params", <<>>),
                                 Get(processed, "query", <<>>))),
     init |-> FinalRequestOptions(processed)]

----------------------------------------------------------------------------
(* JSON.parse, for texts that are one scalar or one object of scalars and  *)
(* have no white space other than around the value                         *)

DigitSyms == <<"0", "1", "2", "3", "4", "5", "6", "7", "8", "9">>
IsDigit(c) == \E i \in 1..10 : DigitSyms[i] = c
DigitValue(c) == (CHOOSE i \in 1..10 : DigitSyms[i] = c) - 1

RECURSIVE NumberValue(_)
NumberValue(s) ==
    IF s = <<>> THEN 0
    ELSE 10 * NumberValue(SubSeq(s, 1, Len(s) - 1)) + DigitValue(s[Len(s)])

\* String.prototype.trim
RECURSIVE Trim(_)
Trim(s) ==
    IF s = <<>> THEN s
    ELSE IF s[1] = " " THEN Trim(Tail(s))
    ELSE IF s[Len(s)] = " " THEN Trim(SubSeq(s, 1, Len(s) - 1))
    ELSE s

ParseOk(v) == [ok |-> TRUE, v |-> v]
ParseFail == [ok |-> FALSE]

ParseScalar(s) ==
    IF s = <<"null">> THEN ParseOk(Null)
    ELSE IF s = <<"true">> THEN ParseOk(Bool(TRUE))
    ELSE IF s = <<"false">> THEN ParseOk(Bool(FALSE))
    ELSE IF s # <<>> /\ (\A i \in 1..Len(s) : IsDigit(s[i]))
              /\ (Len(s) > 1 => s[1] # "0")
    THEN ParseOk(Num(NumberValue(s)))
    ELSE IF Len(s) >= 2 /\ s[1] = "\"" /\ s[Len(s)] = "\""
              /\ (\A i \in 2..(Len(s) - 1) : s[i] # "\"")
    THEN ParseOk(Str(SubSeq(s, 2, Len(s) - 1)))
    ELSE ParseFail

\* the pieces of s between the separators sep
RECURSIVE Split(_, _)
Split(s, sep) ==
    IF \E i \in 1..Len(s) : s[i] = sep
    THEN LET i == CHOOSE j \in 1..Len(s) :
                    s[j] = sep /\ \A k \in 1..(j - 1) : s[k] # sep
         IN  <<SubSeq(s, 1, i - 1)>> \o Split(SubSeq(s, i + 1, Len(s)), sep)
    ELSE <<s>>

\* "key":scalar
ParseMember(m) ==
    IF Len(m) >= 4 /\ m[1] = "\"" /\ (\E j \in 2..Len(m) : m[j] = "\"")
    THEN LET j == CHOOSE k \in 2..Len(m) :
                    m[k] = "\"" /\ \A l \in 2..(k - 1) : m[l] # "\""
             val == ParseScalar(SubSeq(m, j + 2, Len(m)))
         IN  IF j < Len(m) /\ m[j + 1] = ":" /\ val.ok
             THEN ParseOk(<<SubSeq(m, 2, j - 1), val.v>>)
             ELSE ParseFail
    ELSE ParseFail

JsonParse(text) ==
    LET s == Trim(text)
    IN  IF Len(s) >= 2 /\ s[1] = "{" /\ s[Len(s)] = "}"
        THEN IF Len(s) = 2 THEN ParseOk(Obj(<<>>))
             ELSE LET members == Split(SubSeq(s, 2, Len(s) - 1), ",")
                      parsed == [i \in 1..Len(members) |-> ParseMember(members[i])]
                  IN  IF \A i \in 1..Len(parsed) : parsed[i].ok
                      THEN ParseOk(Obj([i \in 1..Len(parsed) |-> parsed[i].v]))
                      ELSE ParseFail
        ELSE ParseScalar(s)

\* value.key of a parsed value that is neither null nor undefined
Property(value, key) ==
    IF value.t = "object" /\ (\E i \in 1..Len(value.v) : value.v[i][1] = key)
    THEN LET i == CHOOSE j \in 1..Len(value.v) :
                    value.v[j][1] = key
                    /\ \A k \in (j + 1)..Len(value.v) : value.v[k][1] # key
         IN  value.v[i][2]
    ELSE Undef

----------------------------------------------------------------------------
(* The response normalizer: customFetch from the network call's response   *)

\* response.ok
Ok(status) == status >= 200 /\ status <= 299

\* `HTTP error! status: ${response.status}`
HttpError(status) == Error("Error", <<"HTTP error! status: ">> \o Digits(status))

SyntaxError == Error("SyntaxError", <<"Unexpected token">>)
TypeError == Error("TypeError", <<"Cannot read properties of null">>)

\* s.includes(sub)
Includes(s, sub) ==
    \E i \in 1..(Len(s) - Len(sub) + 1) : SubSeq(s, i, i + Len(sub) - 1) = sub

\* contentType?.includes(sub), for the value of headers.get("content-type")
TypeIncludes(contentType, sub) ==
    contentType.t = "string" /\ Includes(contentType.v, sub)

IsBinaryType(contentType) ==
    \/ TypeIncludes(contentType, <<"application/octet-stream">>)
    \/ TypeIncludes(contentType, <<"application/pdf">>)
    \/ TypeIncludes(contentType, <<"image/">>)

\* a normalizer that tests for application/json before the binary types
NormalizeJsonFirst(response, expectResponse) ==
    IF ~expectResponse THEN
        IF ~Ok(response.status) THEN Throw(HttpError(response.status)) ELSE Value(Null)
    ELSE IF ~Ok(response.status) THEN [kind |-> "read", branch |-> "error", op |-> "text"]
    ELSE IF response.status = 204 THEN Value(Null)
    ELSE IF TypeIncludes(response.contentType, <<"application/json">>)
    THEN [kind |-> "read", branch |-> "json", op |-> "text"]
    ELSE IF IsBinaryType(response.contentType)
    THEN [kind |-> "read", branch |-> "binary", op |-> "blob"]
    ELSE IF TypeIncludes(response.contentType, <<"text/">>)
    THEN [kind |-> "read", branch |-> "text", op |-> "text"]
    ELSE [kind |-> "read", branch |-> "default", op |-> "text"]

\* What customFetch does with a response before it reads the body: it
\* settles (a Value or a Throw), or it starts one read of the body (Read).
Read(branch, op) == [kind |-> "read", branch |-> branch, op |-> op]

\* a branch for expectResponse false that does not look at the status
NoResponseResultUnchecked(status) == Value(Null)

\* a branch for expectResponse false that reads the body of a 2xx response
NoResponseResultReading(status) ==
    IF ~Ok(status) THEN Throw(HttpError(status)) ELSE Read("json", "text")

\* the branch for expectResponse false
NoResponseResult(status) ==
    IF ~Ok(status) THEN Throw(HttpError(status)) ELSE Value(Null)

Normalize(response, expectResponse) ==
    IF ~expectResponse THEN NoResponseResult(response.status)
    ELSE IF ~Ok(response.status) THEN Read("error", "text")
    ELSE IF response.status = 204 THEN Value(Null)
    ELSE IF IsBinaryType(response.contentType) THEN Read("binary", "blob")
    ELSE IF TypeIncludes(response.contentType, <<"application/json">>)
    THEN Read("json", "text")
    ELSE IF TypeIncludes(response.contentType, <<"text/">>) THEN Read("text", "text")
    ELSE Read("default", "text")

\* the error thrown for a failure status whose body text was read
StatusError(status, text) ==
    IF Trim(text) # <<>>
    THEN LET errorResponse == JsonParse(text)
         IN  IF ~errorResponse.ok THEN HttpError(status)
             ELSE IF errorResponse.v.t = "null" THEN TypeError
             ELSE LET message == Property(errorResponse.v, <<"message">>)
                  IN  IF Truthy(message) THEN Error("Error", ToStr(message))
                      ELSE HttpError(status)
    ELSE HttpError(status)

\* a decoding that gives null for a text JSON.parse rejects
ParsedBodyOrNull(text) ==
    IF Trim(text) = <<>> THEN Value(Null)
    ELSE LET jsonData == JsonParse(text)
         IN  IF jsonData.ok THEN Value(jsonData.v) ELSE Value(Null)

\* the parsed body of the application/json branch and of the default branch
ParsedBody(text) ==
    IF Trim(text) = <<>> THEN Value(Null)
    ELSE LET jsonData == JsonParse(text)
         IN  IF jsonData.ok THEN Value(jsonData.v) ELSE Throw(SyntaxError)

\* How customFetch settles once the body read of a branch has settled with
\* `body` (Value(Str(text)), Value(blob) or Reject(error)): the result, and
\* whether the outer catch (console.error) and the default branch's catch
\* (console.warn) saw an error.
Settled(result, logged, warned) ==
    [result |-> result, logged |-> logged, warned |-> warned]

\* a default branch with no catch of its own: its error reaches the outer catch
DefaultBranchRaising(body) ==
    LET r == IF Failed(body) THEN body ELSE ParsedBody(body.v.v)
    IN  IF Failed(r) THEN Settled(Throw(r.v), TRUE, FALSE)
        ELSE Settled(r, FALSE, FALSE)

\* the default branch: the try around the read and the parse warns of an
\* error and returns null
DefaultBranch(body) ==
    LET r == IF Failed(body) THEN body ELSE ParsedBody(body.v.v)
    IN  IF Failed(r) THEN Settled(Value(Null), FALSE, TRUE)
        ELSE Settled(r, FALSE, FALSE)

AfterRead(branch, status, body) ==
    CASE branch = "error" ->
            IF Failed(body) THEN Settled(Throw(body.v), TRUE, FALSE)
            ELSE Settled(Throw(StatusError(status, body.v.v)), TRUE, FALSE)
      [] branch = "binary" ->
            \* return response.blob(): not awaited inside the try
            IF Failed(body) THEN Settled(Throw(body.v), FALSE, FALSE)
            ELSE Settled(body, FALSE, FALSE)
      [] branch = "json" ->
            IF Failed(body) THEN Settled(Throw(body.v), TRUE, FALSE)
            ELSE LET r == ParsedBody(body.v.v)
                 IN  Settled(r, Failed(r), FALSE)
      [] branch = "text" ->
            \* return response.text(): not awaited inside the try
            IF Failed(body) THEN Settled(Throw(body.v), FALSE, FALSE)
            ELSE Settled(body, FALSE, FALSE)
      [] branch = "default" -> DefaultBranch(body)

----------------------------------------------------------------------------
(* The state machine.  A dispatch is one call of a verb method; it is      *)
(* suspended at each await of customFetch and applyMiddlewares, and the     *)
(* client's other methods and the other dispatches run in between.         *)

\* the promise a verb method returned
Pending == [kind |-> "pending"]
Resolved(v) == [kind |-> "resolved", v |-> v]
Rejected(e) == [kind |-> "rejected", v |-> e]

NoResponse == [status |-> 0, contentType |-> Null]

IdleDispatch ==
    [pc |-> "idle",
     args |-> EmptyObj,        \* the argument object of the verb method
     path |-> <<>>,            \* customFetch's path
     options |-> EmptyObj,     \* customFetch's options
     initial |-> EmptyObj,     \* requestOptions, as handed to applyMiddlewares
     opts |-> EmptyObj,        \* processedOptions
     idx |-> 0,                \* the array iterator's index into middlewares
     awaited |-> NoResult,     \* the middleware result being awaited
     applied |-> NoResult,     \* what applyMiddlewares returned or threw
     expect |-> TRUE,          \* processedExpectResponse
     response |-> NoResponse,  \* the response of the network call
     branch |-> "none",        \* the normalizer branch whose read is awaited
     outcome |-> Pending,      \* the verb method's promise
     \* what the dispatch did, in order
     calls |-> <<>>,           \* the middleware invocations
     fetches |-> <<>>,         \* the network calls
     reads |-> <<>>,           \* the body-read operations invoked
     body |-> NoResult,        \* what the body read settled with
     logged |-> <<>>,          \* the errors given to console.error
     warned |-> <<>>,          \* the errors given to console.warn
     \* the client when the dispatch started, and when its middleware
     \* phase ended (applyMiddlewares returned or threw)
     start |-> [token |-> Null, baseUrl |-> <<>>, registered |-> 0],
     phaseEnd |-> [token |-> Null, baseUrl |-> <<>>, registered |-> 0]]

\* the client's fields, as a dispatch's history records them
ClientNow == [token |-> token, baseUrl |-> baseUrl, registered |-> Len(middlewares)]

\* records the client at the end of the middleware phase
Noting(rec, client) ==
    IF rec.pc = "applied" THEN [rec EXCEPT !.phaseEnd = client] ELSE rec

\* new ApiClient(b, t)
InitClient(bases, tokens, ids) ==
    /\ \E b \in bases, t \in tokens :
          /\ baseUrl = NormalizeBase(b)
          /\ token = OrElse(t, Null)
    /\ middlewares = <<>>
    /\ disp = [d \in ids |-> IdleDispatch]
    /\ useReturned = Undef

\* setToken(t)
SetToken(tokens) ==
    /\ \E t \in tokens : token' = Str(t)
    /\ UNCHANGED <<baseUrl, middlewares, disp, useReturned>>

\* setBaseUrl(b)
SetBaseUrl(bases) ==
    /\ \E b \in bases : baseUrl' = NormalizeBase(b)
    /\ UNCHANGED <<token, middlewares, disp, useReturned>>

MaxMiddlewares == 2

\* the client instance, as a value
ThisClient == [t |-> "ApiClient"]

\* a use that puts the middleware in front of the registered ones
UseInFront(kinds) ==
    /\ Len(middlewares) < MaxMiddlewares
    /\ \E m \in kinds : middlewares' = <<m>> \o middlewares
    /\ useReturned' = ThisClient
    /\ UNCHANGED <<baseUrl, token, disp>>

\* use(m)
Use(kinds) ==
    /\ Len(middlewares) < MaxMiddlewares
    /\ \E m \in kinds : middlewares' = Append(middlewares, m)
    /\ useReturned' = ThisClient
    /\ UNCHANGED <<baseUrl, token, disp>>

\* a loop that hands every middleware the options applyMiddlewares was called with
StageArgumentInitial(initial, processedOptions) == initial

\* the argument applyMiddlewares gives a middleware
StageArgument(initial, processedOptions) == processedOptions

\* whether the iterator of `for (const middleware of this.middlewares)` has a
\* next element: it compares its index with the array's length at that moment
HasNextMiddleware(idx, mws) == idx < Len(mws)

\* a loop that catches a stage's exception and returns the options so far
StageFailureSwallowed(rec, r) ==
    [rec EXCEPT !.pc = "applied", !.applied = Value(rec.opts)]

\* an exception leaves the loop, and applyMiddlewares with it
StageFailure(rec, r) == [rec EXCEPT !.pc = "applied", !.applied = r]

\* One turn of the loop of applyMiddlewares: the next middleware is called,
\* or the loop ends and applyMiddlewares returns processedOptions.
NextStage(rec, mws) ==
    IF HasNextMiddleware(rec.idx, mws)
    THEN LET m == mws[rec.idx + 1]
             arg == StageArgument(rec.initial, rec.opts)
             r == MwRun(m, arg)
             call == [mw |-> m, pos |-> rec.idx + 1, arg |-> arg, result |-> r,
                      settled |-> (r.kind = "throw")]
         IN  IF r.kind = "throw"
             THEN StageFailure([rec EXCEPT !.idx = @ + 1,
                                           !.calls = Append(@, call)], r)
             ELSE [rec EXCEPT !.pc = "stage", !.idx = @ + 1,
                              !.calls = Append(@, call), !.awaited = r]
    ELSE [rec EXCEPT !.pc = "applied", !.applied = Value(rec.opts)]

\* A verb method is called: customFetch runs up to its first await, inside
\* applyMiddlewares.
Start(d, calls) ==
    /\ disp[d].pc = "idle"
    /\ \E call \in calls :
          LET options == VerbOptions(call)
              initial == InitialRequestOptions(options, token)
              rec == [disp[d] EXCEPT
                        !.args = call,
                        !.path = call.path, !.options = options,
                        !.initial = initial, !.opts = initial,
                        !.start = ClientNow]
          IN  disp' = [disp EXCEPT ![d] =
                          Noting(NextStage(rec, middlewares), ClientNow)]
    /\ UNCHANGED <<baseUrl, token, middlewares, useReturned>>

\* The awaited middleware result settles: applyMiddlewares goes on.
StageSettles(d) ==
    /\ disp[d].pc = "stage"
    /\ LET rec == disp[d]
           n == Len(rec.calls)
           seen == [rec EXCEPT !.calls[n].settled = TRUE, !.awaited = NoResult]
       IN  disp' = [disp EXCEPT ![d] = Noting(
                IF Failed(rec.awaited)
                THEN StageFailure(seen, rec.awaited)
                ELSE NextStage([seen EXCEPT !.opts = rec.awaited.v], middlewares),
                ClientNow)]
    /\ UNCHANGED <<baseUrl, token, middlewares, useReturned>>

\* a customFetch that clears the client's token once it has built the request
AppliedClearingToken(d) ==
    /\ disp[d].pc = "applied"
    /\ LET rec == disp[d]
       IN  disp' = [disp EXCEPT ![d] =
                IF Failed(rec.applied)
                THEN [rec EXCEPT !.pc = "done", !.outcome = Rejected(rec.applied.v)]
                ELSE LET processed == rec.applied.v
                     IN  [rec EXCEPT
                            !.pc = "fetch", !.opts = processed,
                            !.expect = Get(processed, "expectResponse", TRUE),
                            !.fetches = Append(@,
                                NetworkCall(rec.path, rec.options, processed,
                                            baseUrl))]]
    /\ token' = Null
    /\ UNCHANGED <<baseUrl, middlewares, useReturned>>

\* a customFetch that keeps the processed options in a field of the client:
\* a dispatch builds its request from what another dispatch in flight left there
AppliedSharedOptions(d) ==
    /\ disp[d].pc = "applied"
    /\ LET rec == disp[d]
           others == {e \in DOMAIN disp \ {d} :
                          disp[e].pc \in {"stage", "applied", "fetch", "read"}}
       IN  disp' = [disp EXCEPT ![d] =
                IF Failed(rec.applied)
                THEN [rec EXCEPT !.pc = "done", !.outcome = Rejected(rec.applied.v)]
                ELSE LET processed == IF others = {} THEN rec.applied.v
                                      ELSE disp[CHOOSE e \in others : TRUE].opts
                     IN  [rec EXCEPT
                            !.pc = "fetch", !.opts = processed,
                            !.expect = Get(processed, "expectResponse", TRUE),
                            !.fetches = Append(@,
                                NetworkCall(rec.path, rec.options, processed,
                                            baseUrl))]]
    /\ UNCHANGED <<baseUrl, token, middlewares, useReturned>>

\* `await this.applyMiddlewares(requestOptions)` resumes: the error of a
\* middleware leaves customFetch (the await is outside the try), or the
\* request is built and fetch is called.
Applied(d) ==
    /\ disp[d].pc = "applied"
    /\ LET rec == disp[d]
       IN  disp' = [disp EXCEPT ![d] =
                IF Failed(rec.applied)
                THEN [rec EXCEPT !.pc = "done", !.outcome = Rejected(rec.applied.v)]
                ELSE LET processed == rec.applied.v
                     IN  [rec EXCEPT
                            !.pc = "fetch", !.opts = processed,
                            !.expect = Get(processed, "expectResponse", TRUE),
                            !.fetches = Append(@,
                                NetworkCall(rec.path, rec.options, processed,
                                            baseUrl))]]
    /\ UNCHANGED <<baseUrl, token, middlewares, useReturned>>

NetworkError == Error("TypeError", <<"Failed to fetch">>)
ReadError == Error("TypeError", <<"Failed to read body">>)

\* a customFetch that calls fetch once more after a failure
FinishRetrying(rec, s) ==
    IF Failed(s.result) /\ Len(rec.fetches) = 1
    THEN [rec EXCEPT !.pc = "fetch", !.fetches = Append(@, @[1])]
    ELSE [rec EXCEPT
            !.pc = "done",
            !.outcome = IF Failed(s.result) THEN Rejected(s.result.v)
                        ELSE Resolved(s.result.v),
            !.logged = IF s.logged THEN Append(@, s.result.v) ELSE @,
            !.warned = IF s.warned THEN Append(@, "Failed to parse response as JSON:")
                       ELSE @]

\* a customFetch that, once the response is decoded, awaits a promise that
\* never settles
FinishHanging(rec, s) == [rec EXCEPT !.pc = "hung"]

\* how customFetch ends: the catch around the network call and the decoding
\* logs the error it rethrows
Finish(rec, s) ==
    [rec EXCEPT
        !.pc = "done",
        !.outcome = IF Failed(s.result) THEN Rejected(s.result.v)
                    ELSE Resolved(s.result.v),
        !.logged = IF s.logged THEN Append(@, s.result.v) ELSE @,
        !.warned = IF s.warned THEN Append(@, "Failed to parse response as JSON:")
                   ELSE @]

\* The network call settles: it rejects, or it resolves with a response of
\* one of the given statuses and content types.
FetchSettles(d, statuses, contentTypes) ==
    /\ disp[d].pc = "fetch"
    /\ LET rec == disp[d]
       IN  \/ disp' = [disp EXCEPT ![d] =
                    Finish(rec, Settled(Throw(NetworkError), TRUE, FALSE))]
           \/ \E st \in statuses, ct \in contentTypes :
                LET response == [status |-> st, contentType |-> ct]
                    n == Normalize(response, rec.expect)
                    got == [rec EXCEPT !.response = response]
                IN  disp' = [disp EXCEPT ![d] =
                        IF n.kind = "read"
                        THEN [got EXCEPT !.pc = "read", !.branch = n.branch,
                                         !.reads = Append(@, n.op)]
                        ELSE Finish(got, Settled(n, Failed(n), FALSE))]
    /\ UNCHANGED <<baseUrl, token, middlewares, useReturned>>

Blob(text) == [t |-> "blob", v |-> text]

\* a normalizer that, when the first read of a body has given its text, reads
\* the body of the same response again
ReadSettlesRereading(d, texts) ==
    /\ disp[d].pc = "read"
    /\ LET rec == disp[d]
           op == rec.reads[Len(rec.reads)]
       IN  \E body \in {Reject(ReadError)}
                       \cup {Value(IF op = "blob" THEN Blob(x) ELSE Str(x)) : x \in texts} :
              disp' = [disp EXCEPT ![d] =
                  IF Len(rec.reads) = 1 /\ ~Failed(body)
                  THEN [rec EXCEPT !.reads = Append(@, op)]
                  ELSE Finish([rec EXCEPT !.body = body],
                              AfterRead(rec.branch, rec.response.status, body))]
    /\ UNCHANGED <<baseUrl, token, middlewares, useReturned>>

\* The body read settles: it rejects, or it gives one of the given texts.
ReadSettles(d, texts) ==
    /\ disp[d].pc = "read"
    /\ LET rec == disp[d]
           op == rec.reads[Len(rec.reads)]
       IN  \E body \in {Reject(ReadError)}
                       \cup {Value(IF op = "blob" THEN Blob(x) ELSE Str(x)) : x \in texts} :
              disp' = [disp EXCEPT ![d] =
                  Finish([rec EXCEPT !.body = body],
                         AfterRead(rec.branch, rec.response.status, body))]
    /\ UNCHANGED <<baseUrl, token, middlewares, useReturned>>

----------------------------------------------------------------------------
(* The inputs *)

\* the argument object of a verb method; an undefined argument is left out
Call(verb, path, body, expectResponse, options) ==
    Spread(
      Spread(
        Spread([verb |-> verb, path |-> path],
               IF body.t = "undefined" THEN EmptyObj ELSE [body |-> body]),
        IF expectResponse.t = "undefined" THEN EmptyObj
        ELSE [expectResponse |-> expectResponse.v]),
      IF options = EmptyObj THEN EmptyObj ELSE [options |-> options])

ApiTest == <<"https://api.test">>
OtherTest == <<"https://other.test">>
CallerUrl == <<"https://caller.test", "/", "full">>
Users == <<"users">>
JsonType == Str(<<"application/json">>)
NotJson == <<"oops">>
NameX == Obj(<<<<<<"name">>, Str(<<"x">>)>>>>)

\* one dispatch of a client, watched while the client's other methods run
Dispatches == {1}

Bases == {ApiTest, ApiTest \o <<"/">>, OtherTest}
ConstructorTokens == {Undef, Str(<<>>), Str(<<"abc">>)}
Tokens == {<<>>, <<"abc">>, <<"xyz">>}

----------------------------------------------------------------------------
(* Spec: the middleware pipeline.  Middlewares are registered before and   *)
(* while one dispatch runs.                                                *)

Kinds == {"log", "header", "url", "emptyUrl", "noResponse", "throw", "reject"}

Calls ==
    {Call("get", Users, Undef, Undef, EmptyObj),
     Call("get", <<"/">> \o Users, Undef, Undef, [url |-> <<>>]),
     Spread(Call("post", <<"/">> \o Users, NameX, Bool(FALSE), [url |-> CallerUrl]),
            [params |-> <<<<"7">>>>, query |-> <<<<<<"sort">>, Str(<<"name">>)>>>>])}

Init == InitClient({ApiTest, ApiTest \o <<"/">>}, {Undef, Str(<<"abc">>)}, Dispatches)

Next ==
    \/ Use(Kinds)
    \/ \E d \in Dispatches : Start(d, Calls)
    \/ \E d \in Dispatches : StageSettles(d)
    \/ \E d \in Dispatches : Applied(d)
    \/ \E d \in Dispatches : FetchSettles(d, {200, 404}, {Null, JsonType})
    \/ \E d \in Dispatches : ReadSettles(d, {<<>>, NotJson})

Spec == Init /\ [][Next]_vars

----------------------------------------------------------------------------
(* The middleware pipeline *)

\* C1: within one dispatch the middlewares are invoked one at a time in
\* registration order; middleware i+1 is invoked only after the result of
\* middleware i has resolved, and its argument is exactly that result.
SequentialChaining ==
    \A d \in DOMAIN disp :
        LET cs == disp[d].calls
        IN  \A k \in 1..Len(cs) :
                /\ cs[k].pos = k
                /\ k <= Len(middlewares) /\ cs[k].mw = middlewares[k]
                /\ k < Len(cs) =>
                      /\ cs[k].settled
                      /\ cs[k].result.kind = "value"
                      /\ cs[k + 1].arg = cs[k].result.v

\* a second middleware was invoked with the first one's output, which is not
\* what applyMiddlewares was called with
SecondStageInvoked ==
    \E d \in DOMAIN disp :
        /\ Len(disp[d].calls) = 2
        /\ disp[d].calls[2].arg = disp[d].calls[1].result.v
        /\ disp[d].calls[2].arg # disp[d].initial

\* C2: a dispatch invokes only the middlewares that were registered when it
\* started; one registered while it is suspended is never invoked for it.
OnlyMiddlewaresRegisteredAtStart ==
    \A d \in DOMAIN disp : Len(disp[d].calls) <= disp[d].start.registered

\* C3: if a middleware throws or its promise rejects, no later middleware is
\* invoked for that dispatch, no network call is made, and the verb method's
\* promise rejects with that same error.
FirstFailureAborts ==
    \A d \in DOMAIN disp :
        LET cs == disp[d].calls
        IN  \A k \in 1..Len(cs) :
                Failed(cs[k].result) =>
                    /\ k = Len(cs)
                    /\ disp[d].fetches = <<>>
                    /\ disp[d].pc \in {"stage", "applied", "done"}
                    /\ disp[d].pc = "done" => disp[d].outcome = Rejected(cs[k].result.v)

\* the first of two registered middlewares failed and the dispatch is over
AbortedBeforeSecondStage ==
    \E d \in DOMAIN disp :
        /\ disp[d].pc = "done"
        /\ Len(middlewares) = 2
        /\ disp[d].start.registered = 2
        /\ Len(disp[d].calls) = 1
        /\ Failed(disp[d].calls[1].result)
        /\ disp[d].outcome.kind = "rejected"

\* C5: a dispatch makes at most one network call, and exactly one when every
\* middleware stage completed without error; it makes no second call after a
\* rejected call, a failure status or a decoding failure.
SingleNetworkCall ==
    \A d \in DOMAIN disp :
        LET r == disp[d]
            aborted == \E k \in 1..Len(r.calls) : Failed(r.calls[k].result)
        IN  /\ Len(r.fetches) <= 1
            /\ r.pc \in {"idle", "stage", "applied"} => r.fetches = <<>>
            /\ r.pc \in {"fetch", "read"} => Len(r.fetches) = 1
            /\ r.pc = "done" => (Len(r.fetches) = 1 <=> ~aborted)

\* a dispatch whose middleware stage completed ended with a decoding failure,
\* after its one network call
DecodingFailedAfterOneCall ==
    \E d \in DOMAIN disp :
        /\ disp[d].pc = "done"
        /\ disp[d].calls # <<>>
        /\ disp[d].response.status = 200
        /\ disp[d].outcome = Rejected(SyntaxError)
        /\ Len(disp[d].fetches) = 1

\* the options the middleware phase of a dispatch has produced so far
PostMiddleware(r) ==
    IF r.calls = <<>> THEN r.initial ELSE r.calls[Len(r.calls)].result.v

\* C6: the URL of the network call is the url of the post-middleware options
\* if set (a non-empty string); otherwise the url the caller passed if set;
\* otherwise buildUrl(path, post-middleware params, post-middleware query).
\* With an override the URL is the override itself, whatever path, params and
\* query are.
UrlPrecedence ==
    \A d \in DOMAIN disp :
        LET r == disp[d]
            post == PostMiddleware(r)
        IN  r.fetches # <<>> =>
              IF "url" \in DOMAIN post /\ post.url # <<>>
              THEN r.fetches[1].url = post.url
              ELSE IF "url" \in DOMAIN r.options /\ r.options.url # <<>>
              THEN r.fetches[1].url = r.options.url
              ELSE r.fetches[1].url =
                      buildUrl(baseUrl, r.path, post.params, post.query)

\* the caller passed a url and a middleware set another one: the call went to
\* the middleware's
MiddlewareUrlOverCallerUrl ==
    \E d \in DOMAIN disp :
        /\ disp[d].fetches # <<>>
        /\ Get(disp[d].options, "url", <<>>) = CallerUrl
        /\ Get(PostMiddleware(disp[d]), "url", <<>>) = MwUrl
        /\ disp[d].fetches[1].url = MwUrl

----------------------------------------------------------------------------
(* SpecClient: the client's token and base URL are set, and middlewares    *)
(* registered, before and while one dispatch runs.                         *)

ClientKinds == {"log", "header"}

TextPlain == <<"text/plain">>
CallerAuth == <<"caller-auth">>

HeaderCalls ==
    {Call("get", Users, Undef, Undef, [headers |-> h]) :
        h \in {(ContentType :> TextPlain),
               (Authorization :> CallerAuth),
               ("Accept-Language" :> <<"en-US">>)}}

ClientCalls ==
    {Call("get", Users, Undef, Undef, EmptyObj),
     Call("post", Users, NameX, Undef, EmptyObj)} \cup HeaderCalls

InitClientSpec == InitClient(Bases, ConstructorTokens, Dispatches)

NextClient ==
    \/ SetToken(Tokens)
    \/ SetBaseUrl(Bases)
    \/ Use(ClientKinds)
    \/ \E d \in Dispatches : Start(d, ClientCalls)
    \/ \E d \in Dispatches : StageSettles(d)
    \/ \E d \in Dispatches : Applied(d)
    \/ \E d \in Dispatches : FetchSettles(d, {200}, {Null})
    \/ \E d \in Dispatches : ReadSettles(d, {<<>>})

SpecClient == InitClientSpec /\ [][NextClient]_vars

\* the network call a dispatch makes when customFetch resumes after
\* applyMiddlewares, had the client still the token and base URL of `client`
RequestOf(r, client) ==
    NetworkCall(r.path, r.options,
                Spread(r.applied.v,
                       [headers |-> Spread(Rest(r.applied.v.headers, {Authorization}),
                                           AuthHeader(client.token))]),
                client.baseUrl)

\* C4: the token and the base URL of a dispatch's request are those the
\* client held when the dispatch started: when setToken and setBaseUrl ran
\* only while the dispatch was suspended in a middleware stage (the client is,
\* at the network call, as it was when the middleware phase ended), the
\* request is the one the client's state at the start gives.
RequestFromStartState ==
    [][\A d \in DOMAIN disp :
          (/\ disp[d].pc = "applied"
           /\ disp'[d].pc = "fetch"
           /\ disp[d].calls # <<>>
           /\ Authorization \notin DOMAIN Get(disp[d].options, "headers", EmptyObj)
           /\ disp[d].phaseEnd.token = token
           /\ disp[d].phaseEnd.baseUrl = baseUrl)
          => disp'[d].fetches[1] = RequestOf(disp[d], disp[d].start)]_vars

\* C8: the headers handed to the first middleware (and sent, when none is
\* registered) are the default headers overlaid by the caller's: a name the
\* caller supplied has the caller's value, and a default header the caller did
\* not supply is present with its default value.
CallerHeadersOverDefaults ==
    \A d \in DOMAIN disp :
        LET r == disp[d]
            caller == Get(r.options, "headers", EmptyObj)
            merged == IF r.calls # <<>> THEN r.calls[1].arg.headers
                      ELSE r.fetches[1].init.headers
        IN  (r.calls # <<>> \/ r.fetches # <<>>) =>
              /\ \A n \in DOMAIN caller : n \in DOMAIN merged /\ merged[n] = caller[n]
              /\ ContentType \in DOMAIN merged
              /\ ContentType \notin DOMAIN caller =>
                    merged[ContentType] = <<"application/json">>
              /\ (Authorization \notin DOMAIN caller /\ Truthy(r.start.token)) =>
                    /\ Authorization \in DOMAIN merged
                    /\ merged[Authorization] = r.start.token.v
              /\ DOMAIN merged \subseteq (DOMAIN caller) \cup {ContentType, Authorization}

\* the caller's Content-Type replaced the default one in the headers the first
\* middleware got, beside the default Authorization
CallerContentTypeHanded ==
    \E d \in DOMAIN disp :
        /\ disp[d].calls # <<>>
        /\ Get(disp[d].options, "headers", EmptyObj) = (ContentType :> TextPlain)
        /\ disp[d].calls[1].arg.headers[ContentType] = TextPlain
        /\ Authorization \in DOMAIN disp[d].calls[1].arg.headers

\* C9: when the caller supplies no Authorization header, the pre-middleware
\* headers have an Authorization entry if and only if the client's token is
\* set (a non-empty string), and its value is the token itself.
AuthorizationIsToken ==
    \A d \in DOMAIN disp :
        LET r == disp[d]
            caller == Get(r.options, "headers", EmptyObj)
        IN  (r.pc # "idle" /\ Authorization \notin DOMAIN caller) =>
              /\ Authorization \in DOMAIN r.initial.headers
                    <=> (r.start.token.t = "string" /\ r.start.token.v # <<>>)
              /\ Authorization \in DOMAIN r.initial.headers =>
                    r.initial.headers[Authorization] = r.start.token.v

\* a dispatch started after setToken("xyz") carries Authorization: xyz
TokenOfSetTokenSent ==
    \E d \in DOMAIN disp :
        /\ disp[d].pc # "idle"
        /\ disp[d].start.token = Str(<<"xyz">>)
        /\ Authorization \notin DOMAIN Get(disp[d].options, "headers", EmptyObj)
        /\ disp[d].initial.headers[Authorization] = <<"xyz">>

----------------------------------------------------------------------------
(* SpecCall: one verb call of a client with no middleware, for every body  *)
(* and every response                                                      *)

Bodies ==
    {Undef, Null, Num(0), Num(5), Bool(FALSE), Bool(TRUE), Str(<<>>),
     Str(<<"hi">>), FormData, NameX}

BodyCalls ==
    {Call("post", Users, b, e, EmptyObj) : b \in Bodies, e \in {Undef, Bool(FALSE)}}

Statuses == {200, 204, 404, 500}

\* a content type that names both a text type and application/json, and one
\* that names both an image type and application/json
TextAndJson == Str(<<"text/", "html; profile=", "application/json">>)
ImageAndJson == Str(<<"image/", "svg+xml; profile=", "application/json">>)

ContentTypes ==
    {Null, JsonType, Str(<<"text/", "plain">>), Str(<<"image/", "png">>),
     Str(<<"application/pdf">>), Str(<<"application/octet-stream">>),
     Str(<<"application/xml">>), TextAndJson, ImageAndJson}

MessageMissing ==
    <<"{", "\"", "message", "\"", ":", "\"", "missing", "\"", "}">>

Texts == {<<>>, <<" ">>, NotJson, <<"null">>, <<"5">>, <<"{", "}">>, MessageMissing}

InitCall == InitClient({ApiTest}, {Undef, Str(<<"abc">>)}, Dispatches)

NextCall ==
    \/ \E d \in Dispatches : Start(d, BodyCalls)
    \/ \E d \in Dispatches : Applied(d)
    \/ \E d \in Dispatches : FetchSettles(d, Statuses, ContentTypes)
    \/ \E d \in Dispatches : ReadSettles(d, Texts)

SpecCall == InitCall /\ [][NextCall]_vars

\* C7: with no middleware registered, the network call has a body field for
\* every body the caller passed other than undefined (0, false, the empty
\* string and null included): the value itself when it is a string or a
\* FormData, otherwise its JSON encoding; and no body field when the body is
\* undefined.
DefinedBodySent ==
    \A d \in DOMAIN disp :
        LET r == disp[d]
            body == Get(r.options, "body", Undef)
        IN  (r.fetches # <<>> /\ r.calls = <<>>) =>
              IF body.t = "undefined" THEN "body" \notin DOMAIN r.fetches[1].init
              ELSE /\ "body" \in DOMAIN r.fetches[1].init
                   /\ r.fetches[1].init.body =
                        IF body.t \in {"string", "formdata"} THEN body
                        ELSE Str(JsonStringify(body))

\* C10: for a response whose status is not 2xx, the verb method's promise
\* never resolves with a value: it rejects with an error, whether
\* expectResponse is true or false and whatever the body and content type.
FailureStatusRejects ==
    \A d \in DOMAIN disp :
        LET r == disp[d]
        IN  (r.response # NoResponse
             /\ (r.response.status < 200 \/ r.response.status > 299)) =>
              /\ r.outcome.kind # "resolved"
              /\ r.pc = "done" =>
                    (r.outcome.kind = "rejected" /\ r.outcome.v.t = "error")

\* a call that expects no response got a 500 and its promise rejected
NoResponseCallRejected ==
    \E d \in DOMAIN disp :
        /\ disp[d].pc = "done"
        /\ ~disp[d].expect
        /\ disp[d].response.status = 500
        /\ disp[d].outcome = Rejected(HttpError(500))

\* C11: for a response whose status is not 2xx, with expectResponse true and
\* whatever text the body read gave, the error's message is the body's
\* `message` field when the text is not blank, parses as JSON and carries a
\* message; in every other case (a blank text, a text that is not JSON, JSON
\* with no message field, JSON that is not an object) it is exactly
\* `HTTP error! status: <code>`.
ErrorMessageFromBody ==
    \A d \in DOMAIN disp :
        LET r == disp[d]
            text == r.body.v.v
            parsed == JsonParse(text)
            carries == /\ Trim(text) # <<>>
                       /\ parsed.ok
                       /\ parsed.v.t = "object"
                       /\ Truthy(Property(parsed.v, <<"message">>))
        IN  (r.pc = "done" /\ r.branch = "error" /\ r.body.kind = "value") =>
              /\ r.outcome.kind = "rejected"
              /\ r.outcome.v.message =
                    IF carries THEN ToStr(Property(parsed.v, <<"message">>))
                    ELSE <<"HTTP error! status: ">> \o Digits(r.response.status)

----------------------------------------------------------------------------
(* The response normalizer, after the middleware pipeline (Spec) *)

\* C12: when expectResponse of the post-middleware options is false and the
\* status of the response is 2xx, the dispatch resolves to null and no body
\* read (text, json or blob) is invoked on the response.
NoResponseSkipsBody ==
    \A d \in DOMAIN disp :
        LET r == disp[d]
        IN  (/\ r.response # NoResponse
             /\ ~Get(PostMiddleware(r), "expectResponse", TRUE)
             /\ r.response.status >= 200 /\ r.response.status <= 299) =>
              /\ r.reads = <<>>
              /\ r.pc = "done"
              /\ r.outcome = Resolved(Null)

\* the caller expected a response, a middleware set expectResponse to false,
\* and the call resolved to null on a 200 whose body was not read
MiddlewareTurnedResponseOff ==
    \E d \in DOMAIN disp :
        /\ disp[d].pc = "done"
        /\ Get(disp[d].options, "expectResponse", TRUE)
        /\ disp[d].calls # <<>>
        /\ ~Get(PostMiddleware(disp[d]), "expectResponse", TRUE)
        /\ disp[d].response.status = 200
        /\ disp[d].reads = <<>>
        /\ disp[d].outcome = Resolved(Null)

----------------------------------------------------------------------------
(* The response normalizer, for every response (SpecCall) *)

\* the rule that decides for a 2xx response, in the order of the rules
DecodingRule(status, contentType) ==
    LET has(sub) == contentType.t = "string" /\ Includes(contentType.v, <<sub>>)
    IN  IF status = 204 THEN "noContent"
        ELSE IF has("application/octet-stream") \/ has("application/pdf") \/ has("image/")
        THEN "binary"
        ELSE IF has("application/json") THEN "json"
        ELSE IF has("text/") THEN "text"
        ELSE "default"

\* C13: for a 2xx response with expectResponse true the decoding is that of
\* the first rule that matches, in the order: status 204 gives null whatever
\* the content type; a content type containing application/octet-stream,
\* application/pdf or image/ gives a blob; one containing application/json
\* gives the parsed JSON or null; one containing text/ gives the text;
\* otherwise the default branch.  One body read at most is made, and the
\* outcome is that of the deciding rule alone.
FirstMatchingRuleDecides ==
    \A d \in DOMAIN disp :
        LET r == disp[d]
            rule == DecodingRule(r.response.status, r.response.contentType)
            text == r.body.v.v
            parsed == JsonParse(text)
        IN  (/\ r.response # NoResponse
             /\ Get(r.options, "expectResponse", TRUE)
             /\ r.response.status >= 200 /\ r.response.status <= 299) =>
              /\ r.reads = CASE rule = "noContent" -> <<>>
                              [] rule = "binary" -> <<"blob">>
                              [] OTHER -> <<"text">>
              /\ (r.pc = "done" /\ rule = "noContent") => r.outcome = Resolved(Null)
              /\ (r.pc = "done" /\ rule # "noContent" /\ r.body.kind = "value") =>
                    CASE rule = "binary" -> r.outcome = Resolved(Blob(text))
                      [] rule = "text" -> r.outcome = Resolved(Str(text))
                      [] rule = "json" ->
                            \/ r.outcome = Resolved(Null)
                            \/ parsed.ok /\ r.outcome = Resolved(parsed.v)
                            \/ ~parsed.ok /\ r.outcome.kind = "rejected"
                      [] rule = "default" ->
                            \/ r.outcome = Resolved(Null)
                            \/ parsed.ok /\ r.outcome = Resolved(parsed.v)

\* a 200 response whose content type names an image type and application/json
\* resolved to a blob of its body, which is not the parsed JSON
EarlierRuleDecided ==
    \E d \in DOMAIN disp :
        /\ disp[d].pc = "done"
        /\ disp[d].response.status = 200
        /\ disp[d].response.contentType = ImageAndJson
        /\ disp[d].reads = <<"blob">>
        /\ disp[d].outcome = Resolved(Blob(<<"5">>))

\* C14: for a 2xx response other than 204 that the application/json rule
\* decides, a blank or white-space-only body resolves to null, a body that
\* parses resolves to the parsed value, and a body that does not parse makes
\* the promise reject with the parse error; it does not resolve to null.
JsonBranchDecoding ==
    \A d \in DOMAIN disp :
        LET r == disp[d]
            text == r.body.v.v
            parsed == JsonParse(text)
        IN  (/\ r.pc = "done"
             /\ Get(r.options, "expectResponse", TRUE)
             /\ r.response.status >= 200 /\ r.response.status <= 299
             /\ DecodingRule(r.response.status, r.response.contentType) = "json"
             /\ r.body.kind = "value") =>
              r.outcome = IF Trim(text) = <<>> THEN Resolved(Null)
                          ELSE IF parsed.ok THEN Resolved(parsed.v)
                          ELSE Rejected(SyntaxError)

\* a 200 application/json response whose body is not JSON rejected with the
\* SyntaxError, which the outer catch logged
JsonBranchRejected ==
    \E d \in DOMAIN disp :
        /\ disp[d].pc = "done"
        /\ disp[d].response = [status |-> 200, contentType |-> JsonType]
        /\ disp[d].body = Value(Str(NotJson))
        /\ disp[d].outcome = Rejected(SyntaxError)
        /\ disp[d].logged = <<SyntaxError>>

\* C15 as stated: for a 2xx response other than 204 whose content type is
\* absent or matches none of the binary, JSON and text rules, a body that is
\* valid JSON resolves to the parsed value, and a body that is not valid JSON
\* resolves to null after a warning was logged; the promise never rejects.
DefaultBranchWarnsOfInvalidJson ==
    \A d \in DOMAIN disp :
        LET r == disp[d]
            parsed == JsonParse(r.body.v.v)
        IN  (/\ r.pc = "done"
             /\ Get(r.options, "expectResponse", TRUE)
             /\ r.response.status >= 200 /\ r.response.status <= 299
             /\ DecodingRule(r.response.status, r.response.contentType) = "default"
             /\ r.body.kind = "value") =>
              IF parsed.ok THEN r.outcome = Resolved(parsed.v)
              ELSE r.outcome = Resolved(Null) /\ r.warned # <<>>

\* C15, amended: in the default branch a blank or white-space-only body
\* resolves to null and nothing is logged; a body that parses resolves to the
\* parsed value; a body that is not blank and does not parse, and a body
\* whose read failed, resolve to null after one warning.  The promise never
\* rejects and console.error is not called.
DefaultBranchLenient ==
    \A d \in DOMAIN disp :
        LET r == disp[d]
            text == r.body.v.v
            parsed == JsonParse(text)
            warning == <<"Failed to parse response as JSON:">>
        IN  (/\ r.pc = "done"
             /\ Get(r.options, "expectResponse", TRUE)
             /\ r.response.status >= 200 /\ r.response.status <= 299
             /\ DecodingRule(r.response.status, r.response.contentType) = "default"
             /\ r.body.kind # "none") =>
              /\ r.logged = <<>>
              /\ IF r.body.kind # "value"
                 THEN r.outcome = Resolved(Null) /\ r.warned = warning
                 ELSE IF Trim(text) = <<>>
                 THEN r.outcome = Resolved(Null) /\ r.warned = <<>>
                 ELSE IF parsed.ok
                 THEN r.outcome = Resolved(parsed.v) /\ r.warned = <<>>
                 ELSE r.outcome = Resolved(Null) /\ r.warned = warning

\* a 200 response with no content type and a body that is not JSON resolved
\* to null after a warning
DefaultBranchWarned ==
    \E d \in DOMAIN disp :
        /\ disp[d].pc = "done"
        /\ disp[d].response = [status |-> 200, contentType |-> Null]
        /\ disp[d].body = Value(Str(NotJson))
        /\ disp[d].outcome = Resolved(Null)
        /\ Len(disp[d].warned) = 1

----------------------------------------------------------------------------
(* SpecUrl: the URL builder.  One get call of a client with no middleware, *)
(* for every base URL, path, list of path segments and query map, while    *)
(* setBaseUrl runs.                                                        *)

UrlBases ==
    {<<>>, ApiTest, ApiTest \o <<"/">>, ApiTest \o <<"/", "/">>}

Paths == {<<>>, Users, <<"/">> \o Users, <<"/", "/">> \o Users, <<"resource">>}

ParamLists == {<<>>, <<<<"7">>>>, <<<<"param1">>, <<"param2">>>>, <<<<"b">>, <<"a">>>>}

\* query maps, by their entries in insertion order
Queries ==
    {<<>>,
     <<<<<<"sort">>, Str(<<"name">>)>>, <<<<"filter">>, Str(<<"active">>)>>>>,
     <<<<<<"a">>, Undef>>, <<<<"b">>, Null>>>>,
     <<<<<<"tags">>, Arr(<<>>)>>, <<<<"f">>, Obj(<<>>)>>>>,
     <<<<<<"n">>, Obj(<<<<<<"x">>, Null>>>>)>>>>,
     <<<<<<"tags">>, Arr(<<Str(<<"a">>), Str(<<"b">>)>>)>>>>,
     <<<<<<"e">>, Str(<<>>)>>>>,
     <<<<<<"zero">>, Num(0)>>, <<<<"off">>, Bool(FALSE)>>>>,
     <<<<<<"filter">>, Null>>,
       <<<<"tags">>, Arr(<<Str(<<"b">>), Str(<<"a">>), Num(3)>>)>>,
       <<<<"page">>, Num(2)>>,
       <<<<"f">>, Obj(<<<<<<"x">>, Num(1)>>, <<<<"y">>, Null>>,
                        <<<<"z">>, Str(<<"q">>)>>>>)>>>>}

UrlCalls ==
    {Spread(Call("get", path, Undef, Undef, EmptyObj), [params |-> ps, query |-> q]) :
        path \in Paths, ps \in ParamLists, q \in Queries}

InitUrl == InitClient(UrlBases, {Undef}, Dispatches)

NextUrl ==
    \/ SetBaseUrl(UrlBases)
    \/ \E d \in Dispatches : Start(d, UrlCalls)
    \/ \E d \in Dispatches : Applied(d)
    \/ \E d \in Dispatches : FetchSettles(d, {200}, {Null})
    \/ \E d \in Dispatches : ReadSettles(d, {<<>>})

SpecUrl == InitUrl /\ [][NextUrl]_vars

\* s without its trailing separators, and s without its leading ones
RECURSIVE StripTrailing(_)
StripTrailing(s) ==
    IF s # <<>> /\ s[Len(s)] = "/" THEN StripTrailing(SubSeq(s, 1, Len(s) - 1)) ELSE s

RECURSIVE StripLeading(_)
StripLeading(s) == IF s # <<>> /\ s[1] = "/" THEN StripLeading(Tail(s)) ELSE s

\* url starts with the base, one separator, and the relative path
OneSeparatorAtJoin(base, path, url) ==
    LET start == StripTrailing(base) \o <<"/">> \o StripLeading(path)
    IN  /\ Len(url) >= Len(start)
        /\ SubSeq(url, 1, Len(start)) = start

\* C16: for every base URL the constructor or setBaseUrl accepted and every
\* path, the URL buildUrl gives has exactly one separator "/" between the
\* base and the relative path, whether or not the path starts with "/".
OneSeparatorBetweenBaseAndPath ==
    [][\A d \in DOMAIN disp :
          (disp[d].pc = "applied" /\ disp'[d].pc = "fetch") =>
              OneSeparatorAtJoin(baseUrl, disp[d].path, disp'[d].fetches[1].url)]_vars

\* C17: in every reachable state of the client, after the constructor and
\* after any setBaseUrl, with or without trailing separators in the argument,
\* baseUrl ends with exactly one "/".
BaseUrlEndsWithOneSeparator ==
    /\ baseUrl # <<>>
    /\ baseUrl[Len(baseUrl)] = "/"
    /\ Len(baseUrl) >= 2 => baseUrl[Len(baseUrl) - 1] # "/"

\* how many times the symbol c occurs in s
RECURSIVE Count(_, _)
Count(s, c) ==
    IF s = <<>> THEN 0 ELSE (IF s[1] = c THEN 1 ELSE 0) + Count(Tail(s), c)

\* how many of the values are neither undefined nor null
RECURSIVE Defined(_)
Defined(entries) ==
    IF entries = <<>> THEN 0
    ELSE (IF entries[1][2].t \in {"undefined", "null"} THEN 0 ELSE 1)
         + Defined(Tail(entries))

\* the number of pairs a query map stands for: none for an undefined or null
\* value, one per element of an array, one per defined value of a nested map,
\* one for any other value
RECURSIVE PairCount(_)
PairCount(query) ==
    IF query = <<>> THEN 0
    ELSE LET value == query[1][2]
         IN  (CASE value.t \in {"undefined", "null"} -> 0
                [] value.t = "array" -> Len(value.v)
                [] value.t = "object" -> Defined(value.v)
                [] OTHER -> 1)
             + PairCount(Tail(query))

\* C18: in buildUrl an entry of the query whose value is undefined or null
\* gives no pair, and "?" with the query string is appended if and only if
\* there is at least one pair: an empty map, and a map whose values are all
\* undefined, null, empty arrays or empty nested maps, give a URL with no "?".
QuestionMarkIffPairs ==
    \A d \in DOMAIN disp :
        LET r == disp[d]
            url == r.fetches[1].url
            n == PairCount(Get(r.options, "query", <<>>))
        IN  r.fetches # <<>> =>
              /\ Count(url, "?") = IF n > 0 THEN 1 ELSE 0
              /\ Count(url, "=") = n
              /\ url[Len(url)] # "?"

\* the URL of a query whose values are undefined and null has no "?", and
\* neither has the URL of a query of an empty array and an empty nested map
NoPairsNoQuestionMark ==
    \E d \in DOMAIN disp :
        /\ disp[d].fetches # <<>>
        /\ disp[d].options.query \in
              {<<<<<<"a">>, Undef>>, <<<<"b">>, Null>>>>,
               <<<<<<"tags">>, Arr(<<>>)>>, <<<<"f">>, Obj(<<>>)>>>>}
        /\ disp[d].path = Users
        /\ disp[d].fetches[1].url = ApiTest \o <<"/">> \o Users

\* The pairs of a query map as text, in the order of the map and, for an
\* array, of its elements: `key=value`, `key[]=value` for each element of an
\* array, `key[nested]=value` for each defined value of a nested map, with
\* open and close as the text of the brackets.
RECURSIVE PairTexts(_, _, _)
PairTexts(query, open, close) ==
    IF query = <<>> THEN <<>>
    ELSE LET key == query[1][1]
             value == query[1][2]
             kept == IF value.t = "object"
                     THEN SelectSeq(value.v,
                                    LAMBDA e : e[2].t \notin {"undefined", "null"})
                     ELSE <<>>
             texts ==
                CASE value.t \in {"undefined", "null"} -> <<>>
                  [] value.t = "array" ->
                        [i \in 1..Len(value.v) |->
                            key \o open \o close \o <<"=">>
                                \o FormEncode(ToStr(value.v[i]))]
                  [] value.t = "object" ->
                        [i \in 1..Len(kept) |->
                            key \o open \o kept[i][1] \o close \o <<"=">>
                                \o FormEncode(ToStr(kept[i][2]))]
                  [] OTHER -> <<key \o <<"=">> \o FormEncode(ToStr(value))>>
         IN  texts \o PairTexts(Tail(query), open, close)

\* what the URL ends with: the path, the segments in the order given, each
\* after one "/", then "?" and the pairs joined by "&" when there is a pair
UrlTail(path, params, pairTexts) ==
    (IF path # <<>> /\ path[1] = "/" THEN Tail(path) ELSE path)
    \o Flatten([i \in 1..Len(params) |-> <<"/">> \o params[i]])
    \o (IF pairTexts = <<>> THEN <<>> ELSE <<"?">> \o Join(pairTexts, <<"&">>))

\* url ends with tail, after a base that ends with "/"
EndsWithTail(url, tail) ==
    /\ Len(url) > Len(tail)
    /\ SubSeq(url, Len(url) - Len(tail) + 1, Len(url)) = tail
    /\ url[Len(url) - Len(tail)] = "/"

----------------------------------------------------------------------------
(* The request of one call (SpecCall) *)

\* C20: when the body is a FormData and the caller supplies no Content-Type
\* header, the headers of the network call do not have the client's default
\* `Content-Type: application/json`: the content type is left to the
\* transport.
FormDataWithoutJsonContentType ==
    \A d \in DOMAIN disp :
        LET r == disp[d]
            sent == r.fetches[1].init.headers
        IN  (/\ r.fetches # <<>>
             /\ Get(r.options, "body", Undef) = FormData
             /\ ContentType \notin DOMAIN Get(r.options, "headers", EmptyObj)) =>
              ~(ContentType \in DOMAIN sent /\ sent[ContentType] = <<"application/json">>)

----------------------------------------------------------------------------
(* SpecVerb: one call of each verb method of a client with no middleware,  *)
(* for every options argument                                              *)

Verbs == {"get", "post", "put", "patch", "delete"}

SortByName == <<<<<<"sort">>, Str(<<"name">>)>>>>

\* the options argument of a verb method
OptionBags ==
    {EmptyObj,
     [credentials |-> <<"include">>],
     [headers |-> ("Accept-Language" :> <<"en-US">>)],
     [params |-> <<<<"2">>>>],
     [query |-> <<<<<<"page">>, Num(2)>>>>],
     [body |-> Str(<<"hi">>)],
     [method |-> <<"HEAD">>],
     [expectResponse |-> FALSE]}

VerbCalls ==
    {Spread(Call(verb, Users, IF verb = "get" THEN Undef ELSE NameX, e, o),
            [params |-> <<<<"1">>>>, query |-> SortByName]) :
        verb \in Verbs, e \in {Undef, Bool(FALSE)}, o \in OptionBags}

InitVerb == InitClient({ApiTest}, {Undef, Str(<<"abc">>)}, Dispatches)

NextVerb ==
    \/ \E d \in Dispatches : Start(d, VerbCalls)
    \/ \E d \in Dispatches : Applied(d)
    \/ \E d \in Dispatches : FetchSettles(d, {200, 500}, {Null})
    \/ \E d \in Dispatches : ReadSettles(d, {<<>>, NotJson})

SpecVerb == InitVerb /\ [][NextVerb]_vars

\* the fields a verb method takes from its explicit arguments
ExplicitKeys == {"method", "params", "query", "body", "expectResponse"}

\* C21: with no middleware registered, a call of get, post, put, patch or
\* delete makes a network call whose method is GET, POST, PUT, PATCH or DELETE
\* and whose params, query, body and expectResponse are the verb's explicit
\* arguments, whatever the options argument is: the call is the one the same
\* arguments give with the options argument stripped of these fields.
ExplicitArgumentsSent ==
    \A d \in DOMAIN disp :
        LET r == disp[d]
            given == Get(r.args, "options", EmptyObj)
            plain == Spread(Rest(r.args, {"options"}),
                            [options |-> Rest(given, ExplicitKeys)])
            options == VerbOptions(plain)
        IN  (r.fetches # <<>> /\ r.calls = <<>>) =>
              /\ r.fetches[1].init.method = Method(r.args.verb)
              /\ r.expect = Get(r.args, "expectResponse", TRUE)
              /\ r.fetches[1] =
                    NetworkCall(r.path, options,
                                InitialRequestOptions(options, r.start.token),
                                baseUrl)

----------------------------------------------------------------------------
(* SpecMerge: middlewares that return their argument with a change, and    *)
(* middlewares that return an object of their own                          *)

MergeKinds == {"log", "header", "partial", "ownHeaders"}

MergeCalls ==
    {Call("get", Users, Undef, Undef,
          [credentials |-> <<"include">>,
           headers |-> ("Accept-Language" :> <<"en-US">>)]),
     Call("post", Users, NameX, Undef, [cache |-> <<"no-store">>])}

InitMerge == InitClient({ApiTest}, {Undef, Str(<<"abc">>)}, Dispatches)

NextMerge ==
    \/ Use(MergeKinds)
    \/ \E d \in Dispatches : Start(d, MergeCalls)
    \/ \E d \in Dispatches : StageSettles(d)
    \/ \E d \in Dispatches : Applied(d)
    \/ \E d \in Dispatches : FetchSettles(d, {200}, {Null})
    \/ \E d \in Dispatches : ReadSettles(d, {<<>>})

SpecMerge == InitMerge /\ [][NextMerge]_vars

\* the initial options of a dispatch followed by the output of each stage
StageOutputs(r) ==
    <<r.initial>> \o [k \in 1..Len(r.calls) |-> r.calls[k].result.v]

\* { ...bags[1], ...bags[2], ... }
RECURSIVE MergeAll(_)
MergeAll(bags) ==
    IF bags = <<>> THEN EmptyObj
    ELSE Spread(MergeAll(SubSeq(bags, 1, Len(bags) - 1)), bags[Len(bags)])

\* C22: the transport options and the headers of the network call are the
\* key-by-key merge of the dispatch's initial options and the output of every
\* middleware stage, a later stage overriding an earlier one: an option or a
\* header that the caller or an earlier stage set and no later output
\* mentions is in the network call, with its earlier value.
StagesMergedKeyByKey ==
    \A d \in DOMAIN disp :
        LET r == disp[d]
            outputs == StageOutputs(r)
            transport == Rest(MergeAll(outputs), OwnKeys)
            headers == MergeAll([k \in 1..Len(outputs) |->
                                    Get(outputs[k], "headers", EmptyObj)])
            sent == r.fetches[1].init
        IN  r.fetches # <<>> =>
              /\ Rest(sent, {"headers", "body"}) = transport
              /\ sent.headers = headers

----------------------------------------------------------------------------
(* SpecNext: two dispatches of a client on which the Next.js caching       *)
(* middleware is registered, alone or with a middleware that sets the url  *)

TwoDispatches == {1, 2}

NextKinds == {"nextjs", "url"}

NextCalls ==
    {Call("get", Users, Undef, Undef, EmptyObj),
     Call("get", <<"resource">>, Undef, Undef, EmptyObj),
     Call("get", Users, Undef, Undef, [url |-> CallerUrl])}

InitNext == InitClient({ApiTest}, {Undef, Str(<<"abc">>)}, TwoDispatches)

NextNext ==
    \/ Use(NextKinds)
    \/ \E d \in TwoDispatches : Start(d, NextCalls)
    \/ \E d \in TwoDispatches : StageSettles(d)
    \/ \E d \in TwoDispatches : Applied(d)
    \/ \E d \in TwoDispatches : FetchSettles(d, {200}, {Null})
    \/ \E d \in TwoDispatches : ReadSettles(d, {<<>>})

SpecNext == InitNext /\ [][NextNext]_vars

\* the strings the Next.js middleware hashed for a dispatch, one per stage
\* of that middleware
HashedStrings(r) ==
    LET stages == SelectSeq(r.calls, LAMBDA c : c.mw = "nextjs")
    IN  [k \in 1..Len(stages) |->
            LET tags == stages[k].result.v.next.tags IN tags[Len(tags)].of]

\* C23: with nextJsPerUserCachingMiddleware registered, the string hashed for
\* the cache tag of a dispatch is determined by the URL its network call is
\* sent to and by its Authorization header: two dispatches with the same
\* token whose network calls go to different URLs hash different strings.
CacheKeyFromResolvedUrl ==
    \A d1, d2 \in DOMAIN disp :
        LET r1 == disp[d1]
            r2 == disp[d2]
        IN  (/\ r1.fetches # <<>> /\ r2.fetches # <<>>
             /\ HashedStrings(r1) # <<>> /\ HashedStrings(r2) # <<>>
             /\ r1.start.token = r2.start.token
             /\ r1.fetches[1].url # r2.fetches[1].url) =>
              HashedStrings(r1)[1] # HashedStrings(r2)[1]

----------------------------------------------------------------------------
(* SpecKey: nextJsPerUserCachingMiddleware as a function, called on two    *)
(* option bags                                                             *)

\* option bags by their url and their Authorization header, either of which
\* may be absent
KeyUrls == {<<>>, <<"a">>, <<"a", "-", "b">>}
KeyTokens == {<<>>, <<"b">>, <<"c">>}

KeyBag(url, tok) ==
    Spread(IF url = <<>> THEN EmptyObj ELSE [url |-> url],
           [headers |-> IF tok = <<>> THEN EmptyObj ELSE (Authorization :> tok)])

KeyBags == {KeyBag(url, tok) : url \in KeyUrls, tok \in KeyTokens}

InitKey ==
    /\ baseUrl = NormalizeBase(ApiTest)
    /\ token = Null
    /\ middlewares = <<"nextjs">>
    /\ useReturned = Undef
    /\ disp \in [TwoDispatches -> {[IdleDispatch EXCEPT !.opts = bag] : bag \in KeyBags}]

\* the middleware is called on the bag of d
CacheKeyStage(d) ==
    /\ disp[d].pc = "idle"
    /\ LET rec == disp[d]
           r == MwRun("nextjs", rec.opts)
           call == [mw |-> "nextjs", pos |-> 1, arg |-> rec.opts, result |-> r,
                    settled |-> TRUE]
       IN  disp' = [disp EXCEPT ![d] =
                      [rec EXCEPT !.pc = "done", !.calls = Append(@, call),
                                  !.opts = r.v]]
    /\ UNCHANGED <<baseUrl, token, middlewares, useReturned>>

NextKey == \E d \in TwoDispatches : CacheKeyStage(d)

SpecKey == InitKey /\ [][NextKey]_vars

\* the url and the Authorization header value of an option bag
UrlAndToken(o) ==
    <<Get(o, "url", <<>>), Get(Get(o, "headers", EmptyObj), Authorization, <<>>)>>

\* C24: nextJsPerUserCachingMiddleware gives no two users the same cache-key
\* input: for two option bags whose pairs (url, Authorization header value)
\* differ, the strings passed to the hash differ, whichever of url and token
\* are empty.
CacheKeyInputsDiffer ==
    \A d1, d2 \in DOMAIN disp :
        LET r1 == disp[d1]
            r2 == disp[d2]
        IN  (/\ HashedStrings(r1) # <<>> /\ HashedStrings(r2) # <<>>
             /\ UrlAndToken(r1.calls[1].arg) # UrlAndToken(r2.calls[1].arg)) =>
              HashedStrings(r1)[1] # HashedStrings(r2)[1]

----------------------------------------------------------------------------
(* The client's state and the dispatches (Spec) *)

\* C25: a dispatch through a verb method, whatever its outcome (a resolved
\* value, an HTTP error, a transport failure, a middleware abort), leaves the
\* client's baseUrl, token and middleware list as they are: no step of a
\* dispatch changes them.
DispatchLeavesClient ==
    [][disp' # disp =>
          (baseUrl' = baseUrl /\ token' = token /\ middlewares' = middlewares)]_vars

\* a dispatch that went through two middlewares ended with an HTTP error, and
\* the client is as it was when the dispatch started
ClientAsBeforeFailedDispatch ==
    \E d \in DOMAIN disp :
        /\ disp[d].pc = "done"
        /\ Len(disp[d].calls) = 2
        /\ disp[d].response.status = 404
        /\ disp[d].outcome.kind = "rejected"
        /\ token = Str(<<"abc">>)
        /\ disp[d].start = ClientNow

----------------------------------------------------------------------------
(* The middleware list, under every operation of the client (SpecClient) *)

\* C26: over any sequence of operations of the client the middleware list
\* grows only by use() appending one entry at its end: at every step the list
\* before is a prefix of the list after, nothing is removed or reordered, and
\* use() returns the client instance it was called on.
MiddlewaresAppendOnly ==
    [][/\ Len(middlewares') \in {Len(middlewares), Len(middlewares) + 1}
       /\ SubSeq(middlewares', 1, Len(middlewares)) = middlewares
       /\ middlewares' # middlewares => useReturned' = ThisClient]_vars

\* two middlewares are registered, the second after a dispatch had started
\* and setToken had run, and the first is still the first
SecondMiddlewareAppended ==
    \E d \in DOMAIN disp :
        /\ middlewares = <<"log", "header">>
        /\ disp[d].start.registered = 1
        /\ disp[d].start.token # token
        /\ useReturned = ThisClient

----------------------------------------------------------------------------
(* Errors and the console (Spec) *)

\* C27: every error that reaches the caller of a verb method (raised by a
\* middleware stage, by the network call, as an HTTP status error, or by the
\* decoding of the response) was logged by customFetch before it propagated,
\* and the error that propagates is the error that was logged.
RejectionsWereLogged ==
    \A d \in DOMAIN disp :
        (disp[d].pc = "done" /\ disp[d].outcome.kind = "rejected") =>
            disp[d].logged = <<disp[d].outcome.v>>

----------------------------------------------------------------------------
(* SpecLive: the pipeline of Spec, where every awaited promise settles: the *)
(* event loop resumes a dispatch whose awaited middleware result, network   *)
(* call or body read has completed.  The registrations are finitely many.   *)

SpecLive ==
    /\ Init
    /\ [][Next]_vars
    /\ \A d \in Dispatches :
          /\ WF_vars(StageSettles(d))
          /\ WF_vars(Applied(d))
          /\ WF_vars(FetchSettles(d, {200, 404}, {Null, JsonType}))
          /\ WF_vars(ReadSettles(d, {<<>>, NotJson}))

----------------------------------------------------------------------------
(* SpecPair: two dispatches of one client run interleaved.  The pure       *)
(* middlewares are registered before the first dispatch starts, and no     *)
(* method that changes the client is called afterwards.                    *)

PairKinds == {"log", "header", "url"}

\* the middleware lists that use() calls can have built
PairPipelines == UNION {[1..n -> PairKinds] : n \in 0..MaxMiddlewares}

PairCalls ==
    {Call("get", Users, Undef, Undef, [headers |-> ("Accept-Language" :> <<"en-US">>)]),
     Call("post", <<"orders">>, NameX, Undef, [credentials |-> <<"include">>]),
     Spread(Call("delete", Users, Undef, Bool(FALSE), EmptyObj),
            [params |-> <<<<"7">>>>])}

\* new ApiClient(b, t), then a use() per middleware of the pipeline
InitPair ==
    /\ baseUrl = NormalizeBase(ApiTest)
    /\ token \in {Null, Str(<<"abc">>)}
    /\ middlewares \in PairPipelines
    /\ disp = [d \in TwoDispatches |-> IdleDispatch]
    /\ useReturned = IF middlewares = <<>> THEN Undef ELSE ThisClient

NextPair ==
    \/ \E d \in TwoDispatches : Start(d, PairCalls)
    \/ \E d \in TwoDispatches : StageSettles(d)
    \/ \E d \in TwoDispatches : Applied(d)
    \/ \E d \in TwoDispatches : FetchSettles(d, {200, 404}, {Null, JsonType})
    \/ \E d \in TwoDispatches : ReadSettles(d, {<<>>, NotJson})

SpecPair == InitPair /\ [][NextPair]_vars

\* what the middlewares from position i on make of the options o when the
\* dispatch is the only one
RECURSIVE AloneThrough(_, _, _)
AloneThrough(mws, i, o) ==
    IF i > Len(mws) THEN o
    ELSE AloneThrough(mws, i + 1, MwRun(mws[i], o).v)

\* the options a call's dispatch has after its middleware phase, alone
AloneProcessed(call) ==
    AloneThrough(middlewares, 1, InitialRequestOptions(VerbOptions(call), token))

\* the network call of a call's dispatch, alone
AloneRequest(call) ==
    NetworkCall(call.path, VerbOptions(call), AloneProcessed(call), baseUrl)

\* the outcome of a dispatch of the call, alone, for the response and the
\* body text the dispatch r received
AloneOutcome(call, r) ==
    LET expect == Get(AloneProcessed(call), "expectResponse", TRUE)
        n == Normalize(r.response, expect)
        result == IF r.response = IdleDispatch.response THEN Throw(NetworkError)
                  ELSE IF n.kind = "read"
                       THEN AfterRead(n.branch, r.response.status, r.body).result
                       ELSE n
    IN  IF Failed(result) THEN Rejected(result.v) ELSE Resolved(result.v)

\* C29: two dispatches on the same client, interleaved at their suspension
\* points, with pure middlewares and no change of the client, each make the
\* network call and settle with the outcome that their own call gives when it
\* is dispatched alone; nothing of the other dispatch is in either.
DispatchesDoNotInterfere ==
    \A d \in DOMAIN disp :
        LET r == disp[d]
        IN  /\ (r.pc \in {"fetch", "read", "done"}) =>
                    r.fetches = <<AloneRequest(r.args)>>
            /\ (r.pc = "done") => r.outcome = AloneOutcome(r.args, r)

\* a dispatch has made its network call and awaits its body read while the
\* other one, started with another call, is between its two middleware stages
DispatchesOverlap ==
    /\ disp[1].pc = "read"
    /\ disp[2].pc = "stage"
    /\ Len(disp[2].calls) = 1
    /\ Len(middlewares) = 2
    /\ disp[1].args # disp[2].args

----------------------------------------------------------------------------
(* Body reads (SpecCall) *)

\* C30: on every path through the response normalizer (expectResponse false,
\* HTTP error, 204, binary, JSON, text, default) at most one body read, a
\* text() or a blob(), is made on the response of the dispatch's one network
\* call; with expectResponse false and on a 204 none is made.
AtMostOneBodyRead ==
    \A d \in DOMAIN disp :
        LET r == disp[d]
        IN  /\ Len(r.reads) <= 1
            /\ r.reads # <<>> =>
                  /\ r.reads[1] \in {"text", "blob"}
                  /\ Len(r.fetches) = 1
                  /\ r.response # IdleDispatch.response
                  /\ r.expect
                  /\ r.response.status # 204

\* an HTTP error whose body was read as text and was not JSON: the dispatch
\* rejected after that one read
ErrorBodyReadOnce ==
    \E d \in DOMAIN disp :
        /\ disp[d].pc = "done"
        /\ disp[d].response.status = 404
        /\ disp[d].body = Value(Str(NotJson))
        /\ disp[d].reads = <<"text">>
        /\ disp[d].outcome.kind = "rejected"

====
